---- MODULE Spec2Model ----
(***************************************************************************)
(* Model of spotify-backup.py: the SpotifyAPI client (get / list / list1), *)
(* the loopback authorization server (authorize, _AuthorizationServer,     *)
(* _AuthorizationHandler) and the export driver main.                      *)
(*                                                                         *)
(* Strings are sequences of tokens: a token is a run of characters that    *)
(* the program never splits ("me/albums", "limit", "=", "&", ...).         *)
(* A dict is a sequence of <<key, value>> pairs in insertion order.        *)
(***************************************************************************)
EXTENDS Integers, Sequences, FiniteSets, TLC

\* ------------------------------------------------------------------ bounds
MaxPages == 3        \* longest page chain the server serves in one listing
MaxPageItems == 1    \* most items on one page
MaxTries == 3        \* largest `tries` a direct caller of get passes
MaxPathLen == 3      \* longest request path the browser sends, in tokens
MaxRequests == 2     \* most requests the capture server handles in a run
MainMaxPages == 2    \* longest page chain the server serves to a run of main
PagingMaxPages == 3  \* longest finite chain served to the paging caller

\* ------------------------------------------------------- program constants
API == "https://api.spotify.com/v1/"
DefaultTries == 3
Null == "None"       \* JSON null / Python None (str(None) in a query string)
NoUrl == <<>>        \* a `next` that is falsy: JSON null or the empty string

\* ---------------------------------------------------------- string helpers
StartsWith(s, p) == Len(s) >= Len(p) /\ SubSeq(s, 1, Len(p)) = p

Contains(s, t) == \E i \in 1..Len(s) : s[i] = t

RECURSIVE Flatten(_)
Flatten(ss) == IF ss = <<>> THEN <<>> ELSE Head(ss) \o Flatten(Tail(ss))

SeqsUpTo(S, n) == UNION {[1..k -> S] : k \in 0..n}

\* ------------------------------------------------------------------- dicts
Keys(d) == {d[i][1] : i \in 1..Len(d)}

Lookup(d, k) == d[CHOOSE i \in 1..Len(d) : d[i][1] = k][2]

\* d with d[k] = v: an existing key keeps its position, a new key goes last
DictSet(d, k, v) ==
  IF k \in Keys(d)
  THEN [i \in 1..Len(d) |-> IF d[i][1] = k THEN <<k, v>> ELSE d[i]]
  ELSE Append(d, <<k, v>>)

RECURSIVE Merge(_, _)
\* {**a, **b}
Merge(a, b) ==
  IF b = <<>> THEN a ELSE Merge(DictSet(a, Head(b)[1], Head(b)[2]), Tail(b))

RECURSIVE urlencode(_)
urlencode(d) ==
  IF d = <<>> THEN <<>>
  ELSE <<Head(d)[1], "=", Head(d)[2]>>
       \o (IF Tail(d) = <<>> THEN <<>> ELSE <<"&">> \o urlencode(Tail(d)))

Truthy(v) == v # Null /\ v # ""

\* truth value of a string held as a token sequence (or None)
TruthyStr(t) == t # <<Null>> /\ t # <<>>

VARIABLES
  auth,      \* SpotifyAPI._auth of the client in use (NoToken: no client yet)
  fn,        \* API method the caller has invoked: "none", "get", "list", "list1"
  lpc,       \* position inside list / list1
  gpc,       \* position inside get
  url,       \* get: the constructed request URL
  tries,     \* get: the tries argument
  attempt,   \* get: iterations of the for loop completed
  nreq,      \* requests sent by the get call in progress
  nreqAll,   \* history: requests sent since the API method was called
  nfail,     \* "Couldn't load URL" lines logged by the get call in progress
  nsleep,    \* time.sleep(2) calls made by the get call in progress
  nretry,    \* "Trying again..." lines logged by the get call in progress
  result,    \* value returned by the last get call
  response,  \* list / list1: local `response`
  items,     \* list / list1: local `items`
  listUrl,   \* list / list1: argument url
  params,    \* list / list1: argument params
  variant,   \* list1: which triple of extractors the caller supplied
  fetched,   \* history: responses get returned to the listing in progress
  sent,      \* history: URL of the first request of each get call of the listing
  ret,       \* value returned to the caller of the API method
  proc       \* process: "running", "exit1" (sys.exit(1)), "crashed", "done"

apiVars == <<auth, fn, lpc, gpc, url, tries, attempt, nreq, nreqAll, nfail, nsleep,
             nretry, result, response, items, listUrl, params, variant,
             fetched, sent, ret, proc>>

VARIABLES
  apc,       \* authorize: "idle", "opened", "listening", "authorized",
             \*            "returned", "raised"
  browser,   \* webbrowser.open has been called on the authorize URL
  sock,      \* listening socket 127.0.0.1:43019: "unbound", "bound", "closed"
  path,      \* handler: self.path of the request handled last
  status,    \* handler: status line sent for that request (0: none)
  body,      \* handler: page written for that request
  exc,       \* the exception in flight out of handle_request
  handled,   \* requests the server has handled
  missed     \* positions of authorize at which the browser sent a request
             \* that no handle_request call accepted

authVars == <<apc, browser, sock, path, status, body, exc, handled, missed>>

VARIABLES
  mpc,       \* position inside main
  argToken,  \* args.token (NoToken: option not given)
  me,        \* main: local `me`
  playlists, \* main: local `playlists`
  idx,       \* main: playlists whose tracks have been loaded
  files      \* output files: resource -> "absent" or the items written

mainVars == <<mpc, argToken, me, playlists, idx, files>>

vars == <<apiVars, authVars, mainVars>>

\* ------------------------------------------------------ inputs (bounded)
Items == {"a", "b"}
PageItems == SeqsUpTo(Items, MaxPageItems)

NextUrls == {NoUrl, <<API, "page">>, <<"http://mock/", "page">>}

CursorDicts == {<< <<"after", Null>> >>, << <<"after", "c1">> >>,
                << <<"after", "c2">>, <<"before", "c1">> >>}

UrlArgs == {<<"me/albums">>, <<"me/following", "?", "type", "=", "artist">>,
            <<API, "playlists/1/tracks">>}

ParamArgs == {<<>>, << <<"limit", "50">> >>, << <<"after", "c0">> >>}

Variants == {"default", "artists"}

NoToken == <<Null>>   \* no client constructed / args.token is None
NoValue == [none |-> TRUE]

\* a value a method has returned to its caller
Returned(x) == [value |-> x]

OffsetPages == [items : PageItems, next : NextUrls]
DefaultPages == [items : PageItems, next : CursorDicts]
ArtistPages == {[artists |-> [items |-> i, cursors |-> c]] :
                  i \in PageItems, c \in CursorDicts}

\* ------------------------------------------------- list1's extractor triples
\* default:  lines 59-61;  artists: the lambdas main passes, lines 183-185
get_items(v, x) == IF v = "default" THEN x.items ELSE x.artists.items

is_more_items(v, x) ==
  IF v = "default" THEN x.items # <<>>
  ELSE Truthy(Lookup(x.artists.cursors, "after"))

get_next(v, x) == IF v = "default" THEN x.next ELSE x.artists.cursors

\* -------------------------------------------------------------------- get
\* lines 27-30: the URL get requests for arguments (u, p)
GetUrl(u, p) ==
  LET u1 == IF ~StartsWith(u, <<API>>) THEN <<API>> \o u ELSE u
  IN  IF p # <<>>
      THEN u1 \o <<IF Contains(u1, "?") THEN "&" ELSE "?">> \o urlencode(p)
      ELSE u1

\* get_enter with the loop counter shared by the calls of one listing
get_enter_carry(u, p, t) ==
  /\ url' = GetUrl(u, p)
  /\ tries' = t
  /\ attempt' = attempt
  /\ nreq' = 0 /\ nfail' = 0 /\ nsleep' = 0 /\ nretry' = 0
  /\ gpc' = "loop"

\* entry into get(u, p, t): lines 25-33
get_enter(u, p, t) ==
  /\ url' = GetUrl(u, p)
  /\ tries' = t
  /\ attempt' = 0
  /\ nreq' = 0 /\ nfail' = 0 /\ nsleep' = 0 /\ nretry' = 0
  /\ gpc' = "loop"

\* the body of the `me` endpoint
MePages == {[id |-> "u1", display_name |-> "U"]}

\* the pages served to a run of main: at most one item, a `next` inside the
\* API, an `after` cursor or none
MainOffsetPages == [items : {<<>>, <<"a">>}, next : {NoUrl, <<API, "page">>}]

MainArtistPages ==
  {[artists |-> [items |-> i, cursors |-> c]] :
     i \in {<<>>, <<"a">>},
     c \in {<< <<"after", Null>> >>, << <<"after", "c1">> >>}}

\* the pages served to the paging caller of list1 with the default lambdas
PagingDefaultPages ==
  [items : {<<>>, <<"a">>},
   next : {<< <<"after", Null>> >>, << <<"after", "c1">> >>}]

\* the pages of a chain that never ends: a cycle of empty pages
EndlessPages == [items : {<<>>}, next : NextUrls \ {NoUrl}]

\* the pages the server may answer the call in progress with
Pages ==
  IF mpc = "lib"
  THEN IF fn = "list1"
       THEN (IF variant = "default" THEN DefaultPages ELSE ArtistPages)
       ELSE OffsetPages
  ELSE IF mpc = "me" THEN MePages
  ELSE IF mpc = "endless" THEN EndlessPages
  ELSE IF fn = "list1"
       THEN (IF variant = "default" THEN PagingDefaultPages
             ELSE MainArtistPages)
  ELSE MainOffsetPages

\* longest chain the server serves to the listing in progress
Cap ==
  CASE mpc = "lib"    -> MaxPages
    [] mpc = "paging" -> PagingMaxPages
    [] OTHER          -> MainMaxPages

\* the server of the "endless" caller never ends a chain
Endless == mpc = "endless"

\* the histories grow with every page; against the endless server they keep
\* the latest entry only, and the request count is kept for the paging caller
Remember(h, x) == IF Endless THEN <<x>> ELSE Append(h, x)

Counted(n) == IF mpc = "paging" THEN n + 1 ELSE n

\* does the listing in progress go on after page x
Continues(x) ==
  CASE fn = "list"  -> x.next # NoUrl
    [] fn = "list1" -> is_more_items(variant, x)
    [] OTHER        -> FALSE

\* lines 34-39: an attempt succeeds and get returns the parsed body
get_ok ==
  /\ gpc = "loop" /\ attempt < tries
  /\ \E x \in Pages :
       /\ Endless \/ Len(fetched) + 1 < Cap \/ ~Continues(x)
       /\ result' = x
       /\ fetched' = Remember(fetched, x)
  /\ nreq' = nreq + 1
  /\ nreqAll' = Counted(nreqAll)
  /\ gpc' = "returned"
  /\ UNCHANGED <<auth, fn, lpc, url, tries, attempt, nfail, nsleep, nretry,
                 response, items, listUrl, params, variant, sent, ret, proc>>
  /\ UNCHANGED <<authVars, mainVars>>

\* get_fail without the log call of line 41
get_fail_silent ==
  /\ gpc = "loop" /\ attempt < tries
  /\ nreq' = nreq + 1
  /\ nreqAll' = Counted(nreqAll)
  /\ nsleep' = nsleep + 1
  /\ nretry' = nretry + 1
  /\ attempt' = attempt + 1
  /\ UNCHANGED <<auth, fn, lpc, gpc, url, tries, result, response, items,
                 listUrl, params, variant, fetched, sent, ret, proc, nfail>>
  /\ UNCHANGED <<authVars, mainVars>>

\* get_fail looping over range(tries + 1)
get_fail_extra ==
  /\ gpc = "loop" /\ attempt <= tries
  /\ nreq' = nreq + 1
  /\ nreqAll' = Counted(nreqAll)
  /\ nfail' = nfail + 1
  /\ nsleep' = nsleep + 1
  /\ nretry' = nretry + 1
  /\ attempt' = attempt + 1
  /\ UNCHANGED <<auth, fn, lpc, gpc, url, tries, result, response, items,
                 listUrl, params, variant, fetched, sent, ret, proc>>
  /\ UNCHANGED <<authVars, mainVars>>

\* lines 34-43: an attempt raises; log, sleep, log, next iteration
get_fail ==
  /\ gpc = "loop" /\ attempt < tries
  /\ nreq' = nreq + 1
  /\ nreqAll' = Counted(nreqAll)
  /\ nfail' = nfail + 1
  /\ nsleep' = nsleep + 1
  /\ nretry' = nretry + 1
  /\ attempt' = attempt + 1
  /\ UNCHANGED <<auth, fn, lpc, gpc, url, tries, result, response, items,
                 listUrl, params, variant, fetched, sent, ret, proc>>
  /\ UNCHANGED <<authVars, mainVars>>

\* line 44: the loop is exhausted, sys.exit(1); SystemExit is caught nowhere
get_exit ==
  /\ gpc = "loop" /\ attempt >= tries
  /\ gpc' = "exited"
  /\ proc' = "exit1"
  /\ UNCHANGED <<auth, fn, lpc, url, tries, attempt, nreq, nreqAll, nfail, nsleep,
                 nretry, result, response, items, listUrl, params, variant,
                 fetched, sent, ret>>
  /\ UNCHANGED <<authVars, mainVars>>

\* ------------------------------------------------------------------- list
\* entry into list(u, p): line 50 calls get(url, params)
list_enter(u, p) ==
  /\ nreqAll' = 0
  /\ fn' = "list" /\ lpc' = "first"
  /\ listUrl' = u /\ params' = p
  /\ fetched' = <<>>
  /\ response' = NoValue /\ items' = <<>> /\ result' = NoValue
  /\ ret' = NoValue
  /\ get_enter(u, p, DefaultTries)
  /\ sent' = <<GetUrl(u, p)>>

\* lines 50-51: the first get has returned
list_first ==
  /\ fn = "list" /\ lpc = "first" /\ gpc = "returned"
  /\ response' = result
  /\ items' = result.items
  /\ lpc' = "while"
  /\ gpc' = "idle"
  /\ UNCHANGED <<auth, fn, url, tries, attempt, nreq, nreqAll, nfail, nsleep, nretry,
                 result, listUrl, params, variant, fetched, sent, ret, proc>>
  /\ UNCHANGED <<authVars, mainVars>>

\* lines 52-53: the loop test is true, get(response['next'])
list_more ==
  /\ fn = "list" /\ lpc = "while"
  /\ response.next # NoUrl
  /\ get_enter(response.next, <<>>, DefaultTries)
  /\ sent' = Remember(sent, GetUrl(response.next, <<>>))
  /\ lpc' = "next"
  /\ UNCHANGED <<auth, fn, nreqAll, result, response, items, listUrl, params,
                 variant, fetched, ret, proc>>
  /\ UNCHANGED <<authVars, mainVars>>

\* list_next with `items = response['items']` in place of `+=`
list_next_replace ==
  /\ fn = "list" /\ lpc = "next" /\ gpc = "returned"
  /\ response' = result
  /\ items' = result.items
  /\ lpc' = "while"
  /\ gpc' = "idle"
  /\ UNCHANGED <<auth, fn, url, tries, attempt, nreq, nreqAll, nfail, nsleep, nretry,
                 result, listUrl, params, variant, fetched, sent, ret, proc>>
  /\ UNCHANGED <<authVars, mainVars>>

\* lines 53-54: the get of the loop body has returned
list_next ==
  /\ fn = "list" /\ lpc = "next" /\ gpc = "returned"
  /\ response' = result
  /\ items' = items \o result.items
  /\ lpc' = "while"
  /\ gpc' = "idle"
  /\ UNCHANGED <<auth, fn, url, tries, attempt, nreq, nreqAll, nfail, nsleep, nretry,
                 result, listUrl, params, variant, fetched, sent, ret, proc>>
  /\ UNCHANGED <<authVars, mainVars>>

\* list_return with a loop that gives up after the page in hand
list_return_any ==
  /\ fn = "list" /\ lpc = "while"
  /\ lpc' = "returned"
  /\ ret' = Returned(items)
  /\ UNCHANGED <<auth, fn, gpc, url, tries, attempt, nreq, nreqAll, nfail,
                 nsleep, nretry, result, response, items, listUrl, params,
                 variant, fetched, sent, proc>>
  /\ UNCHANGED <<authVars, mainVars>>

\* lines 52, 55: the loop test is false, return items
list_return ==
  /\ fn = "list" /\ lpc = "while"
  /\ response.next = NoUrl
  /\ lpc' = "returned"
  /\ ret' = Returned(items)
  /\ UNCHANGED <<auth, fn, gpc, url, tries, attempt, nreq, nreqAll, nfail, nsleep,
                 nretry, result, response, items, listUrl, params, variant,
                 fetched, sent, proc>>
  /\ UNCHANGED <<authVars, mainVars>>

\* ------------------------------------------------------------------ list1
\* entry into list1(u, p, extractors v): line 62 calls get(url, params)
list1_enter(u, p, v) ==
  /\ nreqAll' = 0
  /\ fn' = "list1" /\ lpc' = "first"
  /\ listUrl' = u /\ params' = p /\ variant' = v
  /\ fetched' = <<>>
  /\ response' = NoValue /\ items' = <<>> /\ result' = NoValue
  /\ ret' = NoValue
  /\ get_enter(u, p, DefaultTries)
  /\ sent' = <<GetUrl(u, p)>>

\* lines 62-63
list1_first ==
  /\ fn = "list1" /\ lpc = "first" /\ gpc = "returned"
  /\ response' = result
  /\ items' = get_items(variant, result)
  /\ lpc' = "while"
  /\ gpc' = "idle"
  /\ UNCHANGED <<auth, fn, url, tries, attempt, nreq, nreqAll, nfail, nsleep, nretry,
                 result, listUrl, params, variant, fetched, sent, ret, proc>>
  /\ UNCHANGED <<authVars, mainVars>>

\* lines 64-65: get(url, {**get_next(response), **params})
list1_more ==
  /\ fn = "list1" /\ lpc = "while"
  /\ is_more_items(variant, response)
  /\ get_enter(listUrl, Merge(get_next(variant, response), params), DefaultTries)
  /\ sent' = Append(sent, GetUrl(listUrl, Merge(get_next(variant, response), params)))
  /\ lpc' = "next"
  /\ UNCHANGED <<auth, fn, nreqAll, result, response, items, listUrl, params,
                 variant, fetched, ret, proc>>
  /\ UNCHANGED <<authVars, mainVars>>

\* lines 65-66
list1_next ==
  /\ fn = "list1" /\ lpc = "next" /\ gpc = "returned"
  /\ response' = result
  /\ items' = items \o get_items(variant, result)
  /\ lpc' = "while"
  /\ gpc' = "idle"
  /\ UNCHANGED <<auth, fn, url, tries, attempt, nreq, nreqAll, nfail, nsleep, nretry,
                 result, listUrl, params, variant, fetched, sent, ret, proc>>
  /\ UNCHANGED <<authVars, mainVars>>

\* list1_return testing the items instead of calling is_more_items
list1_return_items ==
  /\ fn = "list1" /\ lpc = "while"
  /\ get_items(variant, response) = <<>>
  /\ lpc' = "returned"
  /\ ret' = Returned(items)
  /\ UNCHANGED <<auth, fn, gpc, url, tries, attempt, nreq, nreqAll, nfail, nsleep,
                 nretry, result, response, items, listUrl, params, variant,
                 fetched, sent, proc>>
  /\ UNCHANGED <<authVars, mainVars>>

\* lines 64, 67
list1_return ==
  /\ fn = "list1" /\ lpc = "while"
  /\ ~is_more_items(variant, response)
  /\ lpc' = "returned"
  /\ ret' = Returned(items)
  /\ UNCHANGED <<auth, fn, gpc, url, tries, attempt, nreq, nreqAll, nfail, nsleep,
                 nretry, result, response, items, listUrl, params, variant,
                 fetched, sent, proc>>
  /\ UNCHANGED <<authVars, mainVars>>

\* --------------------------------------------- a caller of the API methods
Tokens == {<<"T">>}

\* spotify.get(u, p, tries=t)
call_get ==
  /\ fn = "none" /\ mpc = "lib"
  /\ \E u \in UrlArgs, p \in ParamArgs, t \in 0..MaxTries :
       get_enter(u, p, t) /\ sent' = <<GetUrl(u, p)>>
  /\ nreqAll' = 0
  /\ fn' = "get" /\ lpc' = "none"
  /\ fetched' = <<>> /\ ret' = NoValue
  /\ UNCHANGED <<auth, result, response, items, listUrl, params, variant,
                 proc>>
  /\ UNCHANGED <<authVars, mainVars>>

\* get hands its value to the direct caller
get_return ==
  /\ fn = "get" /\ gpc = "returned" /\ mpc = "lib"
  /\ ret' = Returned(result)
  /\ gpc' = "idle"
  /\ lpc' = "returned"
  /\ UNCHANGED <<auth, fn, url, tries, attempt, nreq, nreqAll, nfail, nsleep, nretry,
                 result, response, items, listUrl, params, variant, fetched,
                 sent, proc>>
  /\ UNCHANGED <<authVars, mainVars>>

\* spotify.list(u, p)
call_list ==
  /\ fn = "none" /\ mpc \in {"lib", "paging", "endless"}
  /\ \E u \in UrlArgs, p \in ParamArgs : list_enter(u, p)
  /\ UNCHANGED <<auth, variant, proc>>
  /\ UNCHANGED <<authVars, mainVars>>

\* spotify.list1(u, p, get_items, is_more_items, get_next)
call_list1 ==
  /\ fn = "none" /\ mpc \in {"lib", "paging"}
  /\ \E u \in UrlArgs, p \in ParamArgs, v \in Variants : list1_enter(u, p, v)
  /\ UNCHANGED <<auth, proc>>
  /\ UNCHANGED <<authVars, mainVars>>

\* ============================================================== authorize
PathTokens == {"/redirect", "/token?", "access_token=", "&", "A"}

Paths == SeqsUpTo(PathTokens, MaxPathLen) \ {<<>>}

\* the paths sent to a run of main: the redirect, a token callback, a
\* callback without token, a path that is no route
MainPaths == {<<"/redirect">>, <<"/token?", "access_token=", "A">>,
              <<"/token?", "A">>, <<"A">>}

\* the request paths the browser may send
WebPaths == IF mpc = "authcall" THEN Paths ELSE MainPaths

\* re.search('access_token=([^&]*)', p): index of the first match, 0 if none
SearchToken(p) ==
  IF Contains(p, "access_token=")
  THEN CHOOSE i \in 1..Len(p) :
         p[i] = "access_token=" /\ \A j \in 1..(i - 1) : p[j] # "access_token="
  ELSE 0

RECURSIVE UpToAmp(_)
\* [^&]*: the longest prefix without "&"
UpToAmp(s) ==
  IF s = <<>> \/ Head(s) = "&" THEN <<>> ELSE <<Head(s)>> \o UpToAmp(Tail(s))

\* Group1 with the pattern access_token=(.*)
Group1_greedy(p) == SubSeq(p, SearchToken(p) + 1, Len(p))

\* .group(1) of the match
Group1(p) == UpToAmp(SubSeq(p, SearchToken(p) + 1, Len(p)))

\* do_GET with the second route tested by '/token?' in self.path
do_GET_loose(p) ==
  IF StartsWith(p, <<"/redirect">>)
  THEN [status |-> 200, body |-> "relay", raised |-> "none", token |-> NoToken]
  ELSE IF Contains(p, "/token?")
  THEN IF SearchToken(p) # 0
       THEN [status |-> 200, body |-> "thanks", raised |-> "_Authorization",
             token |-> Group1(p)]
       ELSE [status |-> 200, body |-> "thanks", raised |-> "AttributeError",
             token |-> NoToken]
  ELSE [status |-> 404, body |-> "error", raised |-> "none", token |-> NoToken]

\* do_GET with the relay page also leaving the accept loop
do_GET_redirect_raises(p) ==
  IF StartsWith(p, <<"/redirect">>)
  THEN [status |-> 200, body |-> "relay", raised |-> "AttributeError",
        token |-> NoToken]
  ELSE IF StartsWith(p, <<"/token?">>)
  THEN IF SearchToken(p) # 0
       THEN [status |-> 200, body |-> "thanks", raised |-> "_Authorization",
             token |-> Group1(p)]
       ELSE [status |-> 200, body |-> "thanks", raised |-> "AttributeError",
             token |-> NoToken]
  ELSE [status |-> 404, body |-> "error", raised |-> "none", token |-> NoToken]

\* lines 103-121: what the handler sends for path p and what it raises
do_GET(p) ==
  IF StartsWith(p, <<"/redirect">>)
  THEN [status |-> 200, body |-> "relay", raised |-> "none", token |-> NoToken]
  ELSE IF StartsWith(p, <<"/token?">>)
  THEN IF SearchToken(p) # 0
       THEN [status |-> 200, body |-> "thanks", raised |-> "_Authorization",
             token |-> Group1(p)]
       ELSE [status |-> 200, body |-> "thanks", raised |-> "AttributeError",
             token |-> NoToken]
  ELSE [status |-> 404, body |-> "error", raised |-> "none", token |-> NoToken]

\* lines 71-77: webbrowser.open(authorize URL)
authorize_open ==
  /\ apc = "idle"
  /\ mpc = "authcall" \/ (mpc = "login" /\ ~TruthyStr(argToken))
  /\ browser' = TRUE
  /\ apc' = "opened"
  /\ UNCHANGED <<sock, path, status, body, exc, handled, missed>>
  /\ UNCHANGED <<apiVars, mainVars>>

\* line 81, lines 92-94: the server socket is bound and listens
authorize_bind ==
  /\ apc = "opened"
  /\ sock' = "bound"
  /\ apc' = "listening"
  /\ UNCHANGED <<browser, path, status, body, exc, handled, missed>>
  /\ UNCHANGED <<apiVars, mainVars>>

\* authorize_bind_fail wrapped in a loop that tries the bind again
authorize_bind_fail_retry ==
  /\ apc = "opened"
  /\ sock' = "closed"
  /\ exc' = "OSError"
  /\ apc' = "opened"
  /\ proc' = proc
  /\ UNCHANGED <<browser, path, status, body, handled, missed>>
  /\ UNCHANGED <<auth, fn, lpc, gpc, url, tries, attempt, nreq, nreqAll, nfail, nsleep,
                 nretry, result, response, items, listUrl, params, variant,
                 fetched, sent, ret>>
  /\ UNCHANGED mainVars

\* line 81: the bind fails (port in use); OSError leaves authorize
authorize_bind_fail ==
  /\ apc = "opened"
  /\ sock' = "closed"
  /\ exc' = "OSError"
  /\ apc' = "raised"
  /\ proc' = IF mpc = "login" THEN "crashed" ELSE proc
  /\ UNCHANGED <<browser, path, status, body, handled, missed>>
  /\ UNCHANGED <<auth, fn, lpc, gpc, url, tries, attempt, nreq, nreqAll, nfail, nsleep,
                 nretry, result, response, items, listUrl, params, variant,
                 fetched, sent, ret>>
  /\ UNCHANGED mainVars

\* handle_request whose handle_error logs the error and returns
handle_request_swallow ==
  /\ apc = "listening" /\ handled < MaxRequests
  /\ \E p \in WebPaths :
       LET r == do_GET(p) IN
         /\ path' = p
         /\ status' = r.status
         /\ body' = r.body
         /\ exc' = IF r.raised = "_Authorization" THEN r.raised ELSE "none"
         /\ handled' = handled + 1
         /\ IF r.raised = "_Authorization"
            THEN /\ apc' = "returned"
                 /\ auth' = r.token
                 /\ sock' \in {"bound", "closed"}
                 /\ proc' = proc
            ELSE /\ apc' = "listening"
                 /\ UNCHANGED <<auth, sock, proc>>
  /\ UNCHANGED <<browser, missed>>
  /\ UNCHANGED <<fn, lpc, gpc, url, tries, attempt, nreq, nreqAll, nfail, nsleep,
                 nretry, result, response, items, listUrl, params, variant,
                 fetched, sent, ret>>
  /\ UNCHANGED mainVars

\* lines 82-86, 96-99, 103-121: one iteration of the accept loop.  The
\* handler answers; what it raises is re-raised by handle_error and leaves
\* handle_request; _Authorization is caught on line 85 and authorize returns
\* SpotifyAPI(auth.access_token), anything else leaves authorize.
\* authorize never closes the server: on return the runtime may finalize the
\* unreferenced socket or not; an escaping exception's traceback keeps it.
handle_request ==
  /\ apc = "listening" /\ handled < MaxRequests
  /\ \E p \in WebPaths :
       LET r == do_GET(p) IN
         /\ path' = p
         /\ status' = r.status
         /\ body' = r.body
         /\ exc' = r.raised
         /\ handled' = handled + 1
         /\ CASE r.raised = "none" ->
                   /\ apc' = "listening"
                   /\ UNCHANGED <<auth, sock, proc>>
              [] r.raised = "_Authorization" ->
                   /\ apc' = "returned"
                   /\ auth' = r.token
                   /\ sock' \in {"bound", "closed"}
                   /\ proc' = proc
              [] OTHER ->
                   /\ apc' = "raised"
                   /\ sock' = "bound"
                   /\ proc' = IF mpc = "login" THEN "crashed" ELSE proc
                   /\ auth' = auth
  /\ UNCHANGED <<browser, missed>>
  /\ UNCHANGED <<fn, lpc, gpc, url, tries, attempt, nreq, nreqAll, nfail, nsleep,
                 nretry, result, response, items, listUrl, params, variant,
                 fetched, sent, ret>>
  /\ UNCHANGED mainVars

\* the browser sends a request while no handle_request call is accepting:
\* before the bind, or after authorize has been left
browser_request_missed ==
  /\ browser /\ apc \in {"opened", "returned", "raised"}
  /\ apc \notin missed
  /\ missed' = missed \cup {apc}
  /\ UNCHANGED <<apc, browser, sock, path, status, body, exc, handled>>
  /\ UNCHANGED <<apiVars, mainVars>>

Resources == {"albums", "tracks", "artists", "playlists"}

\* =================================================================== main
Limit50 == << <<"limit", "50">> >>
Limit100 == << <<"limit", "100">> >>

\* playlist['tracks']['href'] of playlist pl
Href(pl) == <<API, "playlists/", pl, "/tracks">>

\* line 193: 'users/{user_id}/playlists'.format(user_id=me['id'])
PlaylistsUrl(m) == <<"users/", m.id, "/playlists">>

\* lines 155-156, 162: SpotifyAPI(args.token), then get('me')
main_login_token ==
  /\ mpc = "login" /\ apc = "idle" /\ TruthyStr(argToken)
  /\ auth' = argToken
  /\ get_enter(<<"me">>, <<>>, DefaultTries)
  /\ nreqAll' = 0
  /\ sent' = <<GetUrl(<<"me">>, <<>>)>>
  /\ fetched' = <<>>
  /\ fn' = "get"
  /\ mpc' = "me"
  /\ UNCHANGED <<lpc, result, response, items, listUrl, params, variant, ret,
                 proc>>
  /\ UNCHANGED <<authVars, argToken, me, playlists, idx, files>>

\* lines 158-159, 162: authorize has returned the client, then get('me')
main_login_authorized ==
  /\ mpc = "login" /\ apc = "returned"
  /\ get_enter(<<"me">>, <<>>, DefaultTries)
  /\ nreqAll' = 0
  /\ sent' = <<GetUrl(<<"me">>, <<>>)>>
  /\ fetched' = <<>>
  /\ fn' = "get"
  /\ mpc' = "me"
  /\ UNCHANGED <<auth, lpc, result, response, items, listUrl, params, variant,
                 ret, proc>>
  /\ UNCHANGED <<authVars, argToken, me, playlists, idx, files>>

\* lines 162-166: me = get('me'); log; list('me/albums', {'limit': 50})
main_albums ==
  /\ mpc = "me" /\ fn = "get" /\ gpc = "returned"
  /\ me' = result
  /\ list_enter(<<"me/albums">>, Limit50)
  /\ mpc' = "albums"
  /\ UNCHANGED <<auth, variant, proc>>
  /\ UNCHANGED <<authVars, argToken, playlists, idx, files>>

\* the file of resource r is written with the list just returned
WriteFile(r) == files' = [files EXCEPT ![r] = "written"]

\* main_tracks writing the albums file before the listing has returned
main_tracks_early ==
  /\ mpc = "albums" /\ fn = "list"
  /\ WriteFile("albums")
  /\ list_enter(<<"me/tracks">>, Limit50)
  /\ mpc' = "tracks"
  /\ UNCHANGED <<auth, variant, proc>>
  /\ UNCHANGED <<authVars, argToken, me, playlists, idx>>

\* lines 166-175: albums listed; log; write the albums file; list('me/tracks')
main_tracks ==
  /\ mpc = "albums" /\ fn = "list" /\ lpc = "returned"
  /\ WriteFile("albums")
  /\ list_enter(<<"me/tracks">>, Limit50)
  /\ mpc' = "tracks"
  /\ UNCHANGED <<auth, variant, proc>>
  /\ UNCHANGED <<authVars, argToken, me, playlists, idx>>

\* lines 175-185: tracks listed; write the tracks file; list1 of the artists
main_artists ==
  /\ mpc = "tracks" /\ fn = "list" /\ lpc = "returned"
  /\ WriteFile("tracks")
  /\ list1_enter(<<"me/following", "?", "type", "=", "artist">>, Limit50,
                 "artists")
  /\ mpc' = "artists"
  /\ UNCHANGED <<auth, proc>>
  /\ UNCHANGED <<authVars, argToken, me, playlists, idx>>

\* lines 182-193: artists listed; log; write the artists file; list playlists
main_playlists ==
  /\ mpc = "artists" /\ fn = "list1" /\ lpc = "returned"
  /\ WriteFile("artists")
  /\ list_enter(PlaylistsUrl(me), Limit50)
  /\ mpc' = "playlists"
  /\ UNCHANGED <<auth, variant, proc>>
  /\ UNCHANGED <<authVars, argToken, me, playlists, idx>>

\* lines 193-194: playlists = the list returned; the for loop starts
main_loop ==
  /\ mpc = "playlists" /\ fn = "list" /\ lpc = "returned"
  /\ playlists' = ret.value
  /\ idx' = 0
  /\ fn' = "none"
  /\ mpc' = "loop"
  /\ UNCHANGED <<auth, lpc, gpc, url, tries, attempt, nreq, nreqAll, nfail, nsleep,
                 nretry, result, response, items, listUrl, params, variant,
                 fetched, sent, ret, proc>>
  /\ UNCHANGED <<authVars, argToken, me, files>>

\* lines 194-196: next playlist; log; list(playlist['tracks']['href'], ...)
main_load ==
  /\ mpc = "loop" /\ fn = "none" /\ idx < Len(playlists)
  /\ list_enter(Href(playlists[idx + 1]), Limit100)
  /\ UNCHANGED <<auth, variant, proc>>
  /\ UNCHANGED <<authVars, mainVars>>

\* line 196: playlist['tracks'] = the list returned
main_loaded ==
  /\ mpc = "loop" /\ fn = "list" /\ lpc = "returned"
  /\ idx' = idx + 1
  /\ fn' = "none"
  /\ UNCHANGED <<auth, lpc, gpc, url, tries, attempt, nreq, nreqAll, nfail, nsleep,
                 nretry, result, response, items, listUrl, params, variant,
                 fetched, sent, ret, proc>>
  /\ UNCHANGED <<authVars, mpc, argToken, me, playlists, files>>

\* lines 194, 198-217: the loop is over; write the playlists file; main ends
main_finish ==
  /\ mpc = "loop" /\ fn = "none" /\ idx >= Len(playlists)
  /\ WriteFile("playlists")
  /\ mpc' = "done"
  /\ proc' = "done"
  /\ UNCHANGED <<auth, fn, lpc, gpc, url, tries, attempt, nreq, nreqAll, nfail, nsleep,
                 nretry, result, response, items, listUrl, params, variant,
                 fetched, sent, ret>>
  /\ UNCHANGED <<authVars, argToken, me, playlists, idx>>

\* everything but the client in use and the caller
InitRest ==
  /\ fn = "none" /\ lpc = "none" /\ gpc = "idle"
  /\ url = <<>> /\ tries = DefaultTries /\ attempt = 0
  /\ nreq = 0 /\ nreqAll = 0 /\ nfail = 0 /\ nsleep = 0 /\ nretry = 0
  /\ result = NoValue /\ response = NoValue /\ items = <<>>
  /\ listUrl = <<>> /\ params = <<>> /\ variant = "default"
  /\ fetched = <<>> /\ sent = <<>> /\ ret = NoValue
  /\ proc = "running"
  /\ apc = "idle" /\ browser = FALSE /\ sock = "unbound"
  /\ path = <<>> /\ status = 0 /\ body = "none" /\ exc = "none"
  /\ handled = 0 /\ missed = {}
  /\ me = NoValue
  /\ playlists = <<>> /\ idx = 0
  /\ files = [r \in Resources |-> "absent"]

\* SpotifyAPI(token) has been constructed and no method is running
Init ==
  /\ auth \in Tokens
  /\ mpc = "lib" /\ argToken = NoToken
  /\ InitRest

\* a caller has invoked SpotifyAPI.authorize(client_id, scope)
InitAuth ==
  /\ auth = NoToken
  /\ mpc = "authcall" /\ argToken = NoToken
  /\ InitRest

NextAuth ==
  \/ authorize_open \/ authorize_bind \/ authorize_bind_fail
  \/ handle_request \/ browser_request_missed

SpecAuth == InitAuth /\ [][NextAuth]_vars

\* main after the arguments are parsed (lines 140-152), with or without --token
InitMain ==
  /\ auth = NoToken
  /\ mpc = "login" /\ argToken \in Tokens \cup {NoToken, <<>>}
  /\ InitRest

NextMain ==
  \/ main_login_token \/ main_login_authorized
  \/ authorize_open \/ authorize_bind \/ authorize_bind_fail
  \/ handle_request \/ browser_request_missed
  \/ main_albums \/ main_tracks \/ main_artists \/ main_playlists
  \/ main_loop \/ main_load \/ main_loaded \/ main_finish
  \/ get_ok \/ get_fail \/ get_exit
  \/ list_first \/ list_more \/ list_next \/ list_return
  \/ list1_first \/ list1_more \/ list1_next \/ list1_return

SpecMain == InitMain /\ [][NextMain]_vars

Next ==
  \/ call_get \/ call_list \/ call_list1
  \/ get_ok \/ get_fail \/ get_exit \/ get_return
  \/ list_first \/ list_more \/ list_next \/ list_return
  \/ list1_first \/ list1_more \/ list1_next \/ list1_return

Spec == Init /\ [][Next]_vars

\* a caller pages through a server that either ends every chain within
\* PagingMaxPages pages or never ends one; the interpreter keeps executing
\* the call, and every request returns or raises
InitPaging ==
  /\ auth \in Tokens
  /\ mpc \in {"paging", "endless"} /\ argToken = NoToken
  /\ InitRest

NextPaging ==
  \/ call_list \/ call_list1
  \/ get_ok \/ get_fail \/ get_exit
  \/ list_first \/ list_more \/ list_next \/ list_return
  \/ list1_first \/ list1_more \/ list1_next \/ list1_return

\* the program counters; every step of NextPaging changes one of them
pcs == <<fn, lpc, gpc, attempt>>

SpecPaging == InitPaging /\ [][NextPaging]_vars /\ WF_pcs(NextPaging)

\* ======================================================== claims C1 - C4
PageItemsOf(ps) == [i \in 1..Len(ps) |-> ps[i].items]

RECURSIVE SumLen(_)
SumLen(ss) == IF ss = <<>> THEN 0 ELSE Len(Head(ss)) + SumLen(Tail(ss))

\* the responses form a chain: every page but the last has a `next`, which
\* is what the following get call was given, and the last page has none
IsChain(ps) ==
  /\ Len(ps) >= 1
  /\ \A i \in 1..(Len(ps) - 1) :
       ps[i].next # NoUrl /\ sent[i + 1] = GetUrl(ps[i].next, <<>>)
  /\ ps[Len(ps)].next = NoUrl

\* C1: when list returns, the pages it was served form a chain p1..pN that
\* ends at the first page without `next`, and the value returned is
\* items(p1) ++ ... ++ items(pN): its length is the sum of the page sizes and
\* nothing is dropped, duplicated or reordered; once the page without `next`
\* has been served no further get is started.
C1_ListConcatenatesChain ==
  fn = "list" =>
    /\ lpc = "returned" =>
         /\ IsChain(fetched)
         /\ ret = Returned(Flatten(PageItemsOf(fetched)))
         /\ Len(ret.value) = SumLen(PageItemsOf(fetched))
    /\ (fetched # <<>> /\ fetched[Len(fetched)].next = NoUrl) =>
         gpc # "loop" /\ Len(sent) = Len(fetched)

C1_Witness ==
  /\ fn = "list" /\ lpc = "returned"
  /\ Len(fetched) = 3
  /\ ret = Returned(<<"b", "a", "b">>)

\* the caller's "more" test, as main (line 184) and the defaults (line 60)
\* state it
CallerSaysMore(v, x) ==
  IF v = "artists"
  THEN x.artists.cursors[1][2] \notin {Null, ""}
  ELSE Len(x.items) > 0

CallerItems(v, x) == IF v = "artists" THEN x.artists.items ELSE x.items

\* C2: list1 fetches again only after a response on which the caller's
\* predicate is true; at the first response j on which it is false no get
\* call is started any more (j get calls in all) and list1 returns
\* get_items(r1) ++ ... ++ get_items(rj).
C2_List1StopsAtFirstFalse ==
  fn = "list1" =>
    /\ \A i \in 1..(Len(fetched) - 1) : CallerSaysMore(variant, fetched[i])
    /\ (fetched # <<>> /\ ~CallerSaysMore(variant, fetched[Len(fetched)])) =>
         gpc # "loop" /\ Len(sent) = Len(fetched)
    /\ lpc = "returned" =>
         /\ fetched # <<>>
         /\ ~CallerSaysMore(variant, fetched[Len(fetched)])
         /\ Len(sent) = Len(fetched)
         /\ ret = Returned(Flatten([i \in 1..Len(fetched) |->
                                     CallerItems(variant, fetched[i])]))

C2_Witness ==
  /\ fn = "list1" /\ lpc = "returned" /\ variant = "artists"
  /\ Len(fetched) = 2
  /\ fetched[2].artists.items # <<>>
  /\ ret = Returned(<<"a", "b">>)

\* C3: when get returns after k failed attempts (k < tries), it returns the
\* body of the successful attempt, has sent k + 1 requests and has logged k
\* failure lines.
C3_GetRetriesThenReturns ==
  gpc = "returned" =>
    /\ attempt < tries
    /\ nreq = attempt + 1
    /\ nfail = attempt
    /\ result = fetched[Len(fetched)]
    /\ proc = "running"

C3_Witness ==
  /\ fn = "get" /\ gpc = "returned" /\ tries = 3
  /\ attempt = 2 /\ nfail = 2 /\ nreq = 3

\* C4: get never sends more than `tries` requests; when all of them have
\* failed the process has exited with status 1 after exactly `tries`
\* requests, and neither get nor the list / list1 call around it has
\* returned a value.
C4_ExhaustionExits ==
  /\ nreq <= tries
  /\ (gpc = "loop" /\ attempt >= tries) => nreq = tries /\ nfail = tries
  /\ proc = "exit1" <=> gpc = "exited"
  /\ proc = "exit1" =>
       nreq = tries /\ ret = NoValue /\ lpc # "returned"

C4_Witness ==
  /\ proc = "exit1" /\ fn = "list1" /\ Len(fetched) = 1 /\ nreq = 3

\* ======================================================= claims C5 - C10
IsRedirectRoute(p) == Len(p) >= 1 /\ p[1] = "/redirect"

IsTokenRoute(p) == Len(p) >= 1 /\ p[1] = "/token?"

\* p is /token?access_token=T followed by nothing or by & and more
IsCallbackWith(p, T) ==
  /\ Len(p) >= 2 + Len(T)
  /\ p[1] = "/token?" /\ p[2] = "access_token="
  /\ \A i \in 1..Len(T) : p[2 + i] = T[i] /\ T[i] # "&"
  /\ Len(p) > 2 + Len(T) => p[3 + Len(T)] = "&"

TokenTexts == SeqsUpTo(PathTokens \ {"&"}, MaxPathLen)

\* after authorize has been left nothing of the server or handler changes
ServerStopped ==
  apc \in {"returned", "raised"} =>
    (UNCHANGED <<apc, auth, handled, path, status, body, exc>>)

\* C5: authorize sets the token at most once, and only by returning; a
\* handled request /token?access_token=T makes authorize return the client
\* whose token is T (the text up to the next &); once authorize has been left
\* the server handles no request.
C5_OneTokenPerAuthorize ==
  /\ [](\A T \in TokenTexts :
          (handled > 0 /\ IsCallbackWith(path, T)) =>
            apc = "returned" /\ exc = "_Authorization" /\ auth = T)
  /\ [](apc = "returned" <=> auth # NoToken)
  /\ [][auth' # auth => auth = NoToken /\ apc = "listening"]_vars
  /\ [][ServerStopped]_vars

C5_Witness ==
  /\ apc = "returned" /\ handled >= 2 /\ "returned" \in missed
  /\ path = <<"/token?", "access_token=", "A">> /\ auth = <<"A">>

\* C6: as long as the last request handled is no /token? request (so none
\* before it was one), authorize is still in its accept loop: no token, no
\* exception, the socket bound, and a further request is handled.
C6_OtherRequestsKeepListening ==
  (handled > 0 /\ ~IsTokenRoute(path)) =>
    /\ apc = "listening" /\ auth = NoToken /\ exc = "none" /\ sock = "bound"
    /\ handled < MaxRequests => ENABLED handle_request

C6_Witness ==
  /\ handled >= 2 /\ apc = "listening"
  /\ path = <<"/redirect", "A">> /\ status = 200

\* C7: a request is answered 200 exactly when its path begins with /redirect
\* or with /token?, and 404 otherwise.
C7_OnlyTwoRoutes ==
  handled > 0 =>
    /\ status \in {200, 404}
    /\ status = 200 <=> (IsRedirectRoute(path) \/ IsTokenRoute(path))
    /\ body = "relay" <=> IsRedirectRoute(path)
    /\ body = "thanks" <=> IsTokenRoute(path)

C7_Witness ==
  /\ handled > 0 /\ status = 404
  /\ path = <<"A", "/token?", "access_token=">>

\* C8: whenever authorize has been left, by return or by an exception, the
\* listening socket is closed.
C8_SocketReleasedOnExit ==
  apc \in {"returned", "raised"} => sock = "closed"

\* the listing in progress has returned after a complete chain of pages
ListingDone(f, u, p) ==
  /\ fn = f /\ lpc = "returned" /\ fetched # <<>>
  /\ sent[1] = GetUrl(u, p)
  /\ Len(sent) = Len(fetched)
  /\ IF f = "list" THEN IsChain(fetched)
     ELSE ~CallerSaysMore(variant, fetched[Len(fetched)])

\* position of main -> the resources whose files it has not yet written
Pending(m) ==
  CASE m \in {"login", "me", "albums"} -> Resources
    [] m = "tracks" -> Resources \ {"albums"}
    [] m = "artists" -> {"artists", "playlists"}
    [] m \in {"playlists", "loop"} -> {"playlists"}
    [] OTHER -> {}

\* a step that writes a file, or takes over a listing, is taken from a state
\* in which the listing concerned has returned after its last page
WritesFollowFetches ==
  /\ (files'["albums"] # files["albums"]) =>
       ListingDone("list", <<"me/albums">>, Limit50)
  /\ (files'["tracks"] # files["tracks"]) =>
       ListingDone("list", <<"me/tracks">>, Limit50)
  /\ (files'["artists"] # files["artists"]) =>
       ListingDone("list1", <<"me/following", "?", "type", "=", "artist">>,
                   Limit50)
  /\ (mpc' = "loop" /\ mpc # "loop") =>
       /\ ListingDone("list", PlaylistsUrl(me), Limit50)
       /\ playlists' = Flatten(PageItemsOf(fetched))
  /\ (idx' # idx) =>
       /\ idx' = idx + 1 /\ idx < Len(playlists)
       /\ ListingDone("list", Href(playlists[idx + 1]), Limit100)
  /\ (files'["playlists"] # files["playlists"]) =>
       mpc = "loop" /\ idx = Len(playlists) /\ fn = "none"

\* C9: a resource's file is written only in a step taken when the listing of
\* that resource has returned after its last page (for the playlists: the
\* playlist listing and the track listing of every playlist); when a get
\* exhausts its retries the process has exited and the file of the resource
\* being fetched, and of every later one, does not exist.
C9_FileOnlyAfterCompleteFetch ==
  /\ [](\A r \in Resources : files[r] = "written" <=> r \notin Pending(mpc))
  /\ [](proc \in {"exit1", "crashed"} =>
          Pending(mpc) # {} /\ \A r \in Pending(mpc) : files[r] = "absent")
  /\ [][WritesFollowFetches]_vars

C9_Witness ==
  /\ proc = "exit1" /\ mpc = "loop" /\ idx = 1 /\ Len(playlists) = 2
  /\ Len(fetched) = 1
  /\ files["artists"] = "written" /\ files["playlists"] = "absent"

\* an authorize left by an exception handles nothing and returns nothing
RaisedIsFinal ==
  apc = "raised" => (UNCHANGED <<apc, auth, handled, path, exc>>)

\* C10: a handled request whose path begins with /token? and holds no
\* access_token= leaves authorize with the AttributeError of line 118: no
\* client and no token exist, and no further request is handled.
C10_MalformedCallbackPropagates ==
  /\ []((handled > 0 /\ IsTokenRoute(path)
          /\ \A i \in 1..Len(path) : path[i] # "access_token=") =>
           apc = "raised" /\ exc = "AttributeError" /\ auth = NoToken)
  /\ [][RaisedIsFinal]_vars

C10_Witness ==
  /\ apc = "raised" /\ exc = "AttributeError" /\ "raised" \in missed
  /\ handled >= 2 /\ path = <<"/token?", "A", "&">>

\* ============================================================ claim C11
\* once the bind has failed nothing of the call changes any more
BindFailureIsFinal ==
  exc = "OSError" =>
    (UNCHANGED <<apc, sock, auth, handled, path, status, body, exc>>)

\* C11: when the bind of line 81 fails, authorize is left by the OSError: no
\* request has been or will be handled, no token and no client exist, and
\* the socket is never bound afterwards (no second bind, no other port).
C11_BindFailureIsFatal ==
  /\ [](exc = "OSError" =>
          /\ apc = "raised" /\ sock = "closed"
          /\ handled = 0 /\ path = <<>> /\ status = 0 /\ body = "none"
          /\ auth = NoToken)
  /\ [][BindFailureIsFinal]_vars

C11_Witness ==
  /\ exc = "OSError" /\ apc = "raised" /\ browser
  /\ missed = {"opened", "raised"}

\* ============================================================ claim C12
\* C12: in list, the request that follows a page whose next is not null is
\* sent to exactly the URL in that next field, nothing prefixed and nothing
\* appended, whatever that URL is.
C12_NextUrlRequestedVerbatim ==
  fn = "list" =>
    \A i \in 1..Len(fetched) :
      i < Len(sent) => sent[i + 1] = fetched[i].next

\* ============================================================ claim C13
\* the query string u holds the pair k=v
Carries(u, k, v) ==
  \E j \in 1..(Len(u) - 2) : u[j] = k /\ u[j + 1] = "=" /\ u[j + 2] = v

\* C13: every follow-up request of list1 goes to the url of the first
\* request and carries, for every key of the cursor object get_next returns
\* for the latest response, that cursor's value, whatever params the caller
\* passed.
C13_FollowUpCarriesCursor ==
  fn = "list1" =>
    \A i \in 2..Len(sent) :
      i - 1 <= Len(fetched) =>
        LET cursor == get_next(variant, fetched[i - 1]) IN
          /\ StartsWith(sent[i], GetUrl(listUrl, <<>>))
          /\ \A n \in 1..Len(cursor) :
               Carries(sent[i], cursor[n][1], cursor[n][2])

\* ============================================================ claim C14
\* requests of the get call in progress that followed an earlier failed one
RetriesMade == IF nreq = 0 THEN 0 ELSE nreq - 1

\* C14: in a get call every sleep and every 'Trying again...' line is
\* followed by a further request: when the call is left, by return or by
\* exit, it has slept and announced a retry exactly as often as it retried.
C14_SleepsEqualRetries ==
  gpc \in {"returned", "exited"} =>
    nsleep = RetriesMade /\ nretry = RetriesMade

\* ============================================================ claim C15
\* C15: against a server whose next chain ends, list terminates whatever
\* requests fail: it returns or the process exits, having sent at most
\* tries requests for each page it asked for (tries * N for a chain of N
\* pages).  Against a server whose chain never reaches a null next, list
\* never returns: every page that arrives is followed by a further get
\* call, and only an exhausted retry budget ends the call.
C15_ListTerminatesIffChainEnds ==
  /\ (mpc = "paging" /\ fn = "list") ~> (lpc = "returned" \/ proc = "exit1")
  /\ []((mpc = "paging" /\ fn = "list") =>
          /\ nreqAll <= DefaultTries * Len(sent)
          /\ Len(sent) <= Len(fetched) + 1
          /\ Len(fetched) <= PagingMaxPages
          /\ (lpc = "returned" =>
                /\ Len(sent) = Len(fetched)
                /\ fetched[Len(fetched)].next = NoUrl))
  /\ []((Endless /\ fn = "list") => lpc # "returned")
  /\ (Endless /\ fn = "list" /\ gpc \in {"returned", "idle"}) ~> (gpc = "loop")

C15_Witness ==
  /\ mpc = "paging" /\ fn = "list" /\ lpc = "returned"
  /\ Len(fetched) >= 2 /\ Len(fetched) = PagingMaxPages
  /\ nreqAll = DefaultTries * Len(fetched)

\* ============================================================ claim C16
\* C16: while authorize is running, whenever the browser has been opened on
\* the authorize URL the capture server is bound and listening, so that no
\* request of the browser finds the port unbound.
C16_ListeningBeforeBrowser ==
  /\ (browser /\ apc \in {"opened", "listening"}) => sock = "bound"
  /\ "opened" \notin missed

\* ============================================================ claim C17
\* C17: the confirmation page is sent only for a request from which a token
\* is extracted: whenever the server has answered with that page, a token
\* has been captured and authorize has returned the client holding it.
C17_ThanksOnlyWithToken ==
  body = "thanks" =>
    /\ status = 200 /\ IsTokenRoute(path)
    /\ exc = "_Authorization" /\ apc = "returned"
    /\ auth # NoToken

\* ============================================================ claim C18
\* a listing is in progress
Listing == fn \in {"list", "list1"}

\* requests of the listing in progress that have failed, on any page
FailedInAll == nreqAll - Len(fetched)

\* a step that starts the fetch of a page starts it with the full budget
FreshBudget ==
  (Listing' /\ gpc' = "loop" /\ gpc # "loop") =>
    attempt' = 0 /\ tries' = DefaultTries /\ nfail' = 0 /\ nreq' = 0

\* C18: in list and list1 every page is fetched by a get call of its own
\* with 3 attempts: the attempts used up on a page are the failures on that
\* page only, whatever failed on earlier pages; the process exits only when
\* one page has failed 3 times in a row, and otherwise the listing returns,
\* however many requests have failed in total.
C18_RetryBudgetPerPage ==
  /\ [][FreshBudget]_vars
  /\ []((Listing /\ mpc = "paging") =>
          /\ tries = DefaultTries
          /\ (gpc = "loop" => attempt = nfail /\ nreq = nfail)
          /\ (gpc = "returned" => nfail < DefaultTries)
          /\ (proc = "exit1" => nfail = DefaultTries)
          /\ FailedInAll <= (DefaultTries - 1) * Len(fetched) + nfail)
  /\ (Listing /\ mpc = "paging") ~>
       (lpc = "returned" \/ (proc = "exit1" /\ nfail = DefaultTries))

C18_Witness ==
  /\ mpc = "paging" /\ fn = "list" /\ lpc = "returned"
  /\ Len(fetched) = 2
  /\ FailedInAll > DefaultTries

====
